---- MODULE Spec2Model ----
(***************************************************************************)
(* Model of the DreamJournal class of dream_journal_streamlit.py: the      *)
(* in-memory collection held in st.session_state, the dreams.json backing  *)
(* file, and the operations save_dream, search_dreams, generate_insights,  *)
(* get_analysis and export_analysis.                                       *)
(*                                                                         *)
(* Text is a sequence of one-character strings, so that strip, lower,      *)
(* split and the substring test are computed as Python computes them.      *)
(***************************************************************************)
EXTENDS Integers, Sequences, FiniteSets, TLC

VARIABLES dreams, store, call, ret, ui

vars == <<dreams, store, call, ret, ui>>

\* ------------------------------------------------------------------ bounds
MaxDreams == 2
MaxSearchDreams == 3
MaxInsightDreams == 5
MaxAnalysisDreams == 3

\* ------------------------------------------------------------ str helpers
IsSpace(c) == c = " "

LowerChar(c) ==
  CASE c = "A" -> "a"
    [] c = "B" -> "b"
    [] c = "C" -> "c"
    [] OTHER -> c

lower(s) == [i \in 1..Len(s) |-> LowerChar(s[i])]

RECURSIVE lstrip(_)
lstrip(s) == IF s # <<>> /\ IsSpace(Head(s)) THEN lstrip(Tail(s)) ELSE s

RECURSIVE rstrip(_)
rstrip(s) ==
  IF s # <<>> /\ IsSpace(s[Len(s)]) THEN rstrip(SubSeq(s, 1, Len(s) - 1)) ELSE s

\* mutant: the value is used as typed, without trimming
strip_untrimmed(s) == s

strip(s) == rstrip(lstrip(s))

\* s.split(','): the fragments between commas, empty fragments included
RECURSIVE split(_)
split(s) ==
  IF \E i \in 1..Len(s) : s[i] = ","
  THEN LET i == CHOOSE k \in 1..Len(s) :
                   s[k] = "," /\ \A j \in 1..(k - 1) : s[j] # ","
       IN <<SubSeq(s, 1, i - 1)>> \o split(SubSeq(s, i + 1, Len(s)))
  ELSE <<s>>

\* Python's `q in s` on strings: q occurs as a contiguous substring of s
Contains(q, s) ==
  \E i \in 0..(Len(s) - Len(q)) : SubSeq(s, i + 1, i + Len(q)) = q

\* mutant: the non-blank fragments are kept as typed, not stripped
RECURSIVE StripNonEmptyUntrimmed(_)
StripNonEmptyUntrimmed(frags) ==
  IF frags = <<>> THEN <<>>
  ELSE IF strip(Head(frags)) # <<>>
       THEN <<Head(frags)>> \o StripNonEmptyUntrimmed(Tail(frags))
       ELSE StripNonEmptyUntrimmed(Tail(frags))

\* [tag.strip() for tag in tags.split(',') if tag.strip()]
RECURSIVE StripNonEmpty(_)
StripNonEmpty(frags) ==
  IF frags = <<>> THEN <<>>
  ELSE IF strip(Head(frags)) # <<>>
       THEN <<strip(Head(frags))>> \o StripNonEmpty(Tail(frags))
       ELSE StripNonEmpty(Tail(frags))

parse_tags(tags) == StripNonEmpty(split(tags))

\* datetime.now().strftime('%Y-%m-%d %H:%M:%S') for the clock reading `now`
\* (seconds since the start of the session's day, below one minute)
Digit(n) == CASE n = 0 -> "0" [] n = 1 -> "1" [] n = 2 -> "2" [] n = 3 -> "3"
              [] n = 4 -> "4" [] n = 5 -> "5" [] n = 6 -> "6" [] n = 7 -> "7"
              [] n = 8 -> "8" [] OTHER -> "9"

strftime(now) ==
  <<"2", "0", "2", "5", "-", "0", "1", "-", "0", "1", " ",
    "0", "0", ":", "0", "0", ":", Digit((now \div 10) % 6), Digit(now % 10)>>

\* ------------------------------------------------------------- messages
TitleError == "Please enter a dream title"
DescriptionError == "Please enter a dream description"
SaveFailed == "Failed to save dreams"
SavedOk == "Dream saved successfully!"
NotEnoughData == "Not enough data for insights."
KeepRecording == "Keep recording dreams to unlock more insights!"
NoDreamsYet == "No dreams recorded yet. Start by adding some dreams!"
NoDreamsToExport == "No dreams to export!"
LucidHigh == "You have a high rate of lucid dreaming! This suggests good dream awareness."
LucidLow == "Consider practicing lucid dreaming techniques to increase awareness."
SleepLow == "Your sleep quality could be improved. Consider sleep hygiene practices."
SleepHigh == "You maintain good sleep quality! Keep up the healthy habits."
SentimentHigh == "Your dreams tend to be positive! This may reflect good mental wellbeing."
SentimentLow == "Consider activities that promote positive thoughts before bed."

st_error(text) == [kind |-> "error", text |-> text]
st_success(text) == [kind |-> "success", text |-> text]
st_info(text) == [kind |-> "info", text |-> text]

\* ------------------------------------------------------------------ JSON
\* json.dump of the collection: every Python value becomes a JSON value
JStr(s) == [t |-> "string", v |-> s]
JNum(n) == [t |-> "number", v |-> n]
JBool(b) == [t |-> IF b THEN "true" ELSE "false", v |-> 0]
JArr(a) == [t |-> "array", v |-> a]

dump_dream(d) ==
  [id |-> JNum(d.id), date |-> JStr(d.date), title |-> JStr(d.title),
   description |-> JStr(d.description), emotion |-> JStr(d.emotion),
   lucid |-> JBool(d.lucid),
   tags |-> JArr([i \in 1..Len(d.tags) |-> JStr(d.tags[i])]),
   sleep_quality |-> JNum(d.sleep_quality), sentiment |-> JStr(d.sentiment)]

\* mutant: the collection is dumped as it was before the append
json_dump_stale(ds) ==
  JArr([i \in 1..(Len(ds) - 1) |-> dump_dream(ds[i])])

json_dump(ds) == JArr([i \in 1..Len(ds) |-> dump_dream(ds[i])])

\* json.load: JSON values back to Python values
PyVal(j) ==
  CASE j.t = "true" -> TRUE
    [] j.t = "false" -> FALSE
    [] j.t = "array" -> [i \in 1..Len(j.v) |-> j.v[i].v]
    [] OTHER -> j.v

load_dream(o) == [k \in DOMAIN o |-> PyVal(o[k])]

json_load(doc) == [i \in 1..Len(doc.v) |-> load_dream(doc.v[i])]

\* the backing file dreams.json: absent, holding an incomplete document
\* (not parseable), or holding the document of the last completed dump
Missing == [state |-> "missing", doc |-> JArr(<<>>)]
Partial == [state |-> "partial", doc |-> JArr(<<>>)]
Written(doc) == [state |-> "written", doc |-> doc]

load_dreams(st) ==
  IF st.state = "written" THEN json_load(st.doc) ELSE <<>>

\* outcome of open('dreams.json','w') + json.dump: "ok"; "open_fail" when
\* open raises (file untouched); "dump_fail" when the error comes after the
\* file was opened for writing, which has already truncated it
WriteOutcomes == {"ok", "open_fail", "dump_fail"}

save_dreams(ds, st, outcome) ==
  CASE outcome = "ok" ->
         [store |-> Written(json_dump(ds)), ui |-> <<>>, ret |-> "None"]
    [] outcome = "open_fail" ->
         [store |-> st, ui |-> <<st_error(SaveFailed)>>, ret |-> "None"]
    [] OTHER ->
         [store |-> Partial, ui |-> <<st_error(SaveFailed)>>, ret |-> "None"]

\* ------------------------------------------------------------- sentiment
\* TextBlob polarity in hundredths (-100..100), or the scorer raising
Scored(p) == [fails |-> FALSE, polarity |-> p]
ScorerFails == [fails |-> TRUE, polarity |-> 0]

analyze_sentiment(score) ==
  IF score.fails THEN "neutral"
  ELSE IF score.polarity > 10 THEN "positive"
  ELSE IF score.polarity < -10 THEN "negative"
  ELSE "neutral"

\* ------------------------------------------------------------ save_dream
\* mutant: the id is the length before the append, without the + 1
new_dream_stale_id(ds, title, description, emotion, lucid, tags, sleep_quality, score, now) ==
  [id |-> Len(ds),
   date |-> strftime(now),
   title |-> strip(title),
   description |-> strip(description),
   emotion |-> emotion,
   lucid |-> lucid,
   tags |-> parse_tags(tags),
   sleep_quality |-> sleep_quality,
   sentiment |-> analyze_sentiment(score)]

new_dream(ds, title, description, emotion, lucid, tags, sleep_quality, score, now) ==
  [id |-> Len(ds) + 1,
   date |-> strftime(now),
   title |-> strip(title),
   description |-> strip(description),
   emotion |-> emotion,
   lucid |-> lucid,
   tags |-> parse_tags(tags),
   sleep_quality |-> sleep_quality,
   sentiment |-> analyze_sentiment(score)]

\* mutant: the new record is inserted at the front
list_insert_front(ds, dream) == <<dream>> \o ds

\* self.dreams.append(dream)
list_append(ds, dream) == Append(ds, dream)

SaveDreamCall(title, description, tags, write) ==
  [op |-> "save_dream", title |-> title, description |-> description,
   tags |-> tags, write |-> write]

save_dream(title, description, emotion, lucid, tags, sleep_quality, score, now, outcome) ==
  IF strip(title) = <<>>
  THEN /\ ui' = <<st_error(TitleError)>>
       /\ ret' = FALSE
       /\ call' = SaveDreamCall(title, description, tags, "none")
       /\ UNCHANGED <<dreams, store>>
  ELSE IF strip(description) = <<>>
  THEN /\ ui' = <<st_error(DescriptionError)>>
       /\ ret' = FALSE
       /\ call' = SaveDreamCall(title, description, tags, "none")
       /\ UNCHANGED <<dreams, store>>
  ELSE LET dream == new_dream(dreams, title, description, emotion, lucid,
                              tags, sleep_quality, score, now)
           appended == list_append(dreams, dream)
           saved == save_dreams(appended, store, outcome)
       IN /\ dreams' = appended
          /\ store' = saved.store
          /\ ui' = saved.ui \o <<st_success(SavedOk)>>
          /\ ret' = TRUE
          /\ call' = SaveDreamCall(title, description, tags, outcome)

\* a fresh session: 'dreams' is not in st.session_state, so the constructor
\* loads the collection from the backing file
NewSession ==
  /\ dreams' = load_dreams(store)
  /\ call' = [op |-> "init"]
  /\ ret' = "None"
  /\ ui' = <<>>
  /\ UNCHANGED store

\* --------------------------------------------------------- search_dreams
\* mutant: tags are not searched
matches_no_tags(query, dream) ==
  \/ Contains(query, lower(dream.title))
  \/ Contains(query, lower(dream.description))

matches(query, dream) ==
  \/ Contains(query, lower(dream.title))
  \/ Contains(query, lower(dream.description))
  \/ \E i \in 1..Len(dream.tags) : Contains(query, lower(dream.tags[i]))

RECURSIVE search_loop(_, _)
search_loop(query, ds) ==
  IF ds = <<>> THEN <<>>
  ELSE IF matches(query, Head(ds))
       THEN <<Head(ds)>> \o search_loop(query, Tail(ds))
       ELSE search_loop(query, Tail(ds))

search_dreams(query, ds) ==
  IF query = <<>> THEN <<>> ELSE search_loop(lower(query), ds)

\* ----------------------------------------------------- generate_insights
RECURSIVE SumOver(_, _)
SumOver(f, n) == IF n = 0 THEN 0 ELSE f[n] + SumOver(f, n - 1)

lucid_count(ds) ==
  SumOver([i \in 1..Len(ds) |-> IF ds[i].lucid THEN 1 ELSE 0], Len(ds))

quality_sum(ds) ==
  SumOver([i \in 1..Len(ds) |-> ds[i].sleep_quality], Len(ds))

sentiment_count(ds, s) ==
  SumOver([i \in 1..Len(ds) |-> IF ds[i].sentiment = s THEN 1 ELSE 0], Len(ds))

\* mutant: the upper lucidity threshold is inclusive
lucid_insight_inclusive(ds) ==
  IF lucid_count(ds) * 100 >= 20 * Len(ds) THEN <<LucidHigh>>
  ELSE IF lucid_count(ds) * 100 < 5 * Len(ds) THEN <<LucidLow>>
  ELSE <<>>

\* The quotients of generate_insights are compared with their thresholds by
\* cross-multiplication with len(dreams), which is positive wherever the
\* code divides (the floating-point quotients order the same way for every
\* collection size the model reaches).
\* lucid_percentage = lucid / len * 100 compared with 20 and 5
lucid_insight(ds) ==
  IF lucid_count(ds) * 100 > 20 * Len(ds) THEN <<LucidHigh>>
  ELSE IF lucid_count(ds) * 100 < 5 * Len(ds) THEN <<LucidLow>>
  ELSE <<>>

\* avg_quality = sum / len compared with 5 and 7
quality_insight(ds) ==
  IF quality_sum(ds) < 5 * Len(ds) THEN <<SleepLow>>
  ELSE IF quality_sum(ds) > 7 * Len(ds) THEN <<SleepHigh>>
  ELSE <<>>

\* positive_ratio = positive / len * 100 compared with 60 and 30
sentiment_insight(ds) ==
  IF sentiment_count(ds, "positive") * 100 > 60 * Len(ds) THEN <<SentimentHigh>>
  ELSE IF sentiment_count(ds, "positive") * 100 < 30 * Len(ds) THEN <<SentimentLow>>
  ELSE <<>>

\* mutant: no early return on the empty collection
generate_insights_unguarded(ds) ==
  LET insights == lucid_insight(ds) \o quality_insight(ds)
                    \o sentiment_insight(ds)
  IN IF insights # <<>> THEN insights ELSE <<KeepRecording>>

\* the returned text, as its sequence of lines
generate_insights(ds) ==
  IF ds = <<>> THEN <<NotEnoughData>>
  ELSE LET insights == lucid_insight(ds) \o quality_insight(ds)
                         \o sentiment_insight(ds)
       IN IF insights # <<>> THEN insights ELSE <<KeepRecording>>

\* ---------------------------------------------------------- get_analysis
\* collections.Counter as the sequence of <<key, count>> in insertion order
CounterAdd(c, k) ==
  IF \E i \in 1..Len(c) : c[i][1] = k
  THEN [i \in 1..Len(c) |-> IF c[i][1] = k THEN <<k, c[i][2] + 1>> ELSE c[i]]
  ELSE Append(c, <<k, 1>>)

RECURSIVE Counter(_)
Counter(items) ==
  IF items = <<>> THEN <<>>
  ELSE CounterAdd(Counter(SubSeq(items, 1, Len(items) - 1)), items[Len(items)])

\* mutant: an entry is placed in front of the entries with the same count
InsertByCountUnstable(sorted, e) ==
  LET pos == Cardinality({i \in 1..Len(sorted) : sorted[i][2] > e[2]})
  IN SubSeq(sorted, 1, pos) \o <<e>> \o SubSeq(sorted, pos + 1, Len(sorted))

\* stable insertion of e behind every entry whose count is not smaller
InsertByCount(sorted, e) ==
  LET pos == Cardinality({i \in 1..Len(sorted) : sorted[i][2] >= e[2]})
  IN SubSeq(sorted, 1, pos) \o <<e>> \o SubSeq(sorted, pos + 1, Len(sorted))

RECURSIVE SortByCount(_)
SortByCount(c) ==
  IF c = <<>> THEN <<>>
  ELSE InsertByCount(SortByCount(SubSeq(c, 1, Len(c) - 1)), c[Len(c)])

Take(s, n) == SubSeq(s, 1, IF Len(s) < n THEN Len(s) ELSE n)

most_common(c, n) == Take(SortByCount(c), n)

RECURSIVE all_tags(_)
all_tags(ds) ==
  IF ds = <<>> THEN <<>> ELSE Head(ds).tags \o all_tags(Tail(ds))

\* ' '.join(descriptions)
RECURSIVE join_descriptions(_)
join_descriptions(ds) ==
  IF ds = <<>> THEN <<>>
  ELSE IF Len(ds) = 1 THEN Head(ds).description
  ELSE Head(ds).description \o <<" ">> \o join_descriptions(Tail(ds))

\* re.findall(r'\b\w+\b', text): the maximal runs of word characters
IsWordChar(c) == c \notin {" ", ","}

RECURSIVE findall_words(_, _)
findall_words(text, word) ==
  IF text = <<>> THEN (IF word = <<>> THEN <<>> ELSE <<word>>)
  ELSE IF IsWordChar(Head(text))
       THEN findall_words(Tail(text), Append(word, Head(text)))
       ELSE (IF word = <<>> THEN <<>> ELSE <<word>>)
              \o findall_words(Tail(text), <<>>)

\* comparison of two timestamps of the fixed format, character by character
Ord(c) == CASE c = " " -> 32 [] c = "-" -> 45 [] c = ":" -> 58
            [] c = "0" -> 48 [] c = "1" -> 49 [] c = "2" -> 50 [] c = "3" -> 51
            [] c = "4" -> 52 [] c = "5" -> 53 [] c = "6" -> 54 [] c = "7" -> 55
            [] c = "8" -> 56 [] OTHER -> 57

RECURSIVE StrLess(_, _)
StrLess(a, b) ==
  IF b = <<>> THEN FALSE
  ELSE IF a = <<>> THEN TRUE
  ELSE IF Head(a) = Head(b) THEN StrLess(Tail(a), Tail(b))
  ELSE Ord(Head(a)) < Ord(Head(b))

\* sorted(dreams, key=date, reverse=True): stable, latest first
InsertByDate(sorted, d) ==
  LET pos == Cardinality({i \in 1..Len(sorted) : ~StrLess(sorted[i].date, d.date)})
  IN SubSeq(sorted, 1, pos) \o <<d>> \o SubSeq(sorted, pos + 1, Len(sorted))

RECURSIVE SortByDateDesc(_)
SortByDateDesc(ds) ==
  IF ds = <<>> THEN <<>>
  ELSE InsertByDate(SortByDateDesc(SubSeq(ds, 1, Len(ds) - 1)), ds[Len(ds)])

\* f"{x:.1f}" of num/den, in tenths (round half to even)
Format1f(num, den) ==
  LET q == (num * 10) \div den
      r == (num * 10) % den
  IN IF 2 * r > den \/ (2 * r = den /\ q % 2 = 1) THEN q + 1 ELSE q

CountOf(c, k) ==
  IF \E i \in 1..Len(c) : c[i][1] = k
  THEN (CHOOSE e \in {c[i] : i \in 1..Len(c)} : e[1] = k)[2]
  ELSE 0

\* the report, section by section
get_analysis(ds) ==
  IF ds = <<>> THEN [text |-> NoDreamsYet]
  ELSE
    LET total_dreams == Len(ds)
        lucid_dreams == lucid_count(ds)
        emotion_counts == Counter([i \in 1..Len(ds) |-> ds[i].emotion])
        sentiment_counts == Counter([i \in 1..Len(ds) |-> ds[i].sentiment])
        common_tags == most_common(Counter(all_tags(ds)), 5)
        recent_dreams == Take(SortByDateDesc(ds), 5)
        words == findall_words(lower(join_descriptions(ds)), <<>>)
        common_words == most_common(Counter(words), 10)
    IN [text |-> "DREAM JOURNAL ANALYSIS",
        total_dreams |-> total_dreams,
        lucid_dreams |-> lucid_dreams,
        lucid_percent |-> Format1f(lucid_dreams * 100, total_dreams),
        avg_sleep_quality |-> Format1f(quality_sum(ds), total_dreams),
        most_common_emotion |-> most_common(emotion_counts, 1)[1],
        emotion_counts |-> emotion_counts,
        positive |-> CountOf(sentiment_counts, "positive"),
        negative |-> CountOf(sentiment_counts, "negative"),
        neutral |-> CountOf(sentiment_counts, "neutral"),
        common_tags |-> common_tags,
        common_words |-> common_words,
        recent_titles |-> [i \in 1..Len(recent_dreams) |->
                             <<recent_dreams[i].title,
                               SubSeq(recent_dreams[i].date, 1, 10)>>],
        insights |-> generate_insights(ds)]

\* -------------------------------------------------------- export_analysis
export_analysis(ds, now) ==
  IF ds = <<>>
  THEN [ret |-> "None", ui |-> <<st_info(NoDreamsToExport)>>]
  ELSE [ret |-> [header |-> "DREAM JOURNAL ANALYSIS EXPORT",
                 generated |-> strftime(now),
                 separator |-> 60,
                 analysis |-> get_analysis(ds)],
        ui |-> <<>>]

\* ------------------------------------------------- read-only operations
ExportClock == { 30 }

SearchDreamsWith(query) ==
  /\ ret' = search_dreams(query, dreams)
  /\ call' = [op |-> "search_dreams", query |-> query]
  /\ ui' = <<>>
  /\ UNCHANGED <<dreams, store>>

GenerateInsights ==
  /\ ret' = generate_insights(dreams)
  /\ call' = [op |-> "generate_insights"]
  /\ ui' = <<>>
  /\ UNCHANGED <<dreams, store>>

GetAnalysis ==
  /\ ret' = get_analysis(dreams)
  /\ call' = [op |-> "get_analysis"]
  /\ ui' = <<>>
  /\ UNCHANGED <<dreams, store>>

ExportAnalysis ==
  /\ \E now \in ExportClock :
       LET e == export_analysis(dreams, now)
       IN ret' = e.ret /\ ui' = e.ui
  /\ call' = [op |-> "export_analysis"]
  /\ UNCHANGED <<dreams, store>>

\* ---------------------------------------------------------------- inputs
Init ==
  /\ store \in {Missing, Partial, Written(json_dump(<<>>))}
  /\ dreams = load_dreams(store)
  /\ call = [op |-> "init"]
  /\ ret = "None"
  /\ ui = <<>>

\* -------- the journal: validation, persistence and sessions
TitleInputs == { <<>>, <<" ">>, <<" ", "A", "b", " ">> }
DescriptionInputs == { <<>>, <<" ", " ">>, <<"a", " ", "B", " ">> }
TagsInputs == { <<>>, <<" ", "a", ",", " ", ",", "a", "B">> }
ScoreInputs == { Scored(-50), Scored(11), ScorerFails }
ClockInputs == { 7 }
QueryInputs == { <<>>, <<" ">>, <<"A">>, <<"a", "b">>, <<"c">> }

SaveDream ==
  /\ Len(dreams) < MaxDreams
  /\ \E title \in TitleInputs, description \in DescriptionInputs,
        tags \in TagsInputs, lucid \in BOOLEAN, score \in ScoreInputs,
        now \in ClockInputs, outcome \in WriteOutcomes :
       save_dream(title, description, "Happy", lucid, tags, 5, score, now,
                  outcome)

SearchDreams == \E query \in QueryInputs : SearchDreamsWith(query)

Next ==
  \/ SaveDream
  \/ NewSession
  \/ SearchDreams
  \/ GenerateInsights
  \/ GetAnalysis
  \/ ExportAnalysis

Spec == Init /\ [][Next]_vars

\* -------- searching: records that differ in title, description and tags
SearchTitles == { <<"A", "b">>, <<"c", " ", "c">> }
SearchDescriptions == { <<"a">>, <<"B", " ", "b">> }
SearchTags == { <<>>, <<"C", ",", "a", "b">> }
SearchQueries ==
  { <<>>, <<" ">>, <<" ", " ">>, <<"A", "B">>, <<"c">>, <<"b", " ", "b">>,
    <<"a">>, <<"b", "a">> }

SaveDreamForSearch ==
  /\ Len(dreams) < MaxSearchDreams
  /\ \E title \in SearchTitles, description \in SearchDescriptions,
        tags \in SearchTags :
       save_dream(title, description, "", FALSE, tags, 5, Scored(0), 7, "ok")

SearchDreamsAny == \E query \in SearchQueries : SearchDreamsWith(query)

NextSearch == SaveDreamForSearch \/ SearchDreamsAny

SpecSearch == Init /\ [][NextSearch]_vars

\* -------- insights: records that differ in lucidity, quality and sentiment
InsightQualities == { 3, 9 }
InsightScores == { Scored(50), Scored(0) }

SaveDreamForInsights ==
  /\ Len(dreams) < MaxInsightDreams
  /\ \E lucid \in BOOLEAN, sleep_quality \in InsightQualities,
        score \in InsightScores :
       save_dream(<<"A">>, <<"a">>, "", lucid, <<>>, sleep_quality, score, 7,
                  "ok")

NextInsights == SaveDreamForInsights \/ GenerateInsights

SpecInsights == Init /\ [][NextInsights]_vars

\* -------- analysis: records that differ in tags, emotion and time
AnalysisTags ==
  { <<"a", ",", "a">>, <<"b", ",", "a">>, <<"c", ",", "A", ",", "B">>,
    <<"C", ",", "b", ",", "c">> }
AnalysisEmotions == { "Happy", "Sad" }
AnalysisClock == { 8, 12 }

SaveDreamForAnalysis ==
  /\ Len(dreams) < MaxAnalysisDreams
  /\ \E tags \in AnalysisTags, emotion \in AnalysisEmotions,
        now \in AnalysisClock :
       save_dream(<<"A">>, <<"a", ",", "B", " ", "a">>, emotion, FALSE, tags,
                  5, Scored(0), now, "ok")

NextAnalysis ==
  \/ SaveDreamForAnalysis
  \/ GetAnalysis
  \/ GenerateInsights
  \/ ExportAnalysis

SpecAnalysis == Init /\ [][NextAnalysis]_vars

\* ================================================================ claims
IsBlank(s) == \A i \in 1..Len(s) : IsSpace(s[i])

Range(f) == { f[i] : i \in DOMAIN f }

WriteFailed == call.op = "save_dream" /\ call.write \in {"open_fail", "dump_fail"}

\* C1: when the write to the backing file fails during a create, save_dream
\* does not report success: it returns False and shows no success message.
C1_WriteFailureReported ==
  WriteFailed => (ret = FALSE /\ \A i \in 1..Len(ui) : ui[i].kind # "success")

\* C2: a create whose title or description is blank is rejected with the
\* error of the first failing field (title before description), and neither
\* the collection nor the backing file changes and no write is attempted.
C2_BlankCreateRejected ==
  [][(call'.op = "save_dream"
        /\ (IsBlank(call'.title) \/ IsBlank(call'.description)))
       => /\ ret' = FALSE
          /\ ui' = <<st_error(IF IsBlank(call'.title) THEN TitleError
                              ELSE DescriptionError)>>
          /\ call'.write = "none"
          /\ dreams' = dreams
          /\ store' = store]_vars

C2_Witness ==
  /\ call.op = "save_dream"
  /\ ~IsBlank(call.title)
  /\ IsBlank(call.description)
  /\ call.description # <<>>
  /\ ret = FALSE
  /\ Len(dreams) = 1
  /\ store.state = "written"

\* C3: the record at position i of the collection has id i, so ids are
\* positive and pairwise distinct, whatever creates (accepted, rejected, or
\* with a failed write) came before.
C3_IdIsPosition ==
  /\ \A i \in 1..Len(dreams) : dreams[i].id = i
  /\ \A i, j \in 1..Len(dreams) : dreams[i].id = dreams[j].id => i = j

C3_Witness ==
  /\ Len(dreams) = 2
  /\ call.op = "save_dream"
  /\ call.write = "open_fail"
  /\ Len(load_dreams(store)) = 1

\* C4 as claimed: after an accepted create whose write fails, the new record
\* is the last element of the collection and the backing file keeps its
\* previous content.
C4_FileKeptOnFailedWrite ==
  [][(call'.op = "save_dream" /\ call'.write \in {"open_fail", "dump_fail"})
       => /\ Len(dreams') = Len(dreams) + 1
          /\ SubSeq(dreams', 1, Len(dreams)) = dreams
          /\ store' = store]_vars

\* C4 amended: after an accepted create whose write fails, the new record is
\* the last element of the collection (earlier records untouched), and the
\* backing file either keeps its previous content or is left as an
\* incomplete document that loads as empty.
C4_RecordKeptOnFailedWrite ==
  [][(call'.op = "save_dream" /\ call'.write \in {"open_fail", "dump_fail"})
       => /\ Len(dreams') = Len(dreams) + 1
          /\ SubSeq(dreams', 1, Len(dreams)) = dreams
          /\ dreams'[Len(dreams')].title = strip(call'.title)
          /\ dreams'[Len(dreams')].description = strip(call'.description)
          /\ (store' = store \/ store'.state = "partial")
          /\ (call'.write = "open_fail" => store' = store)]_vars

C4_Witness ==
  /\ call.op = "save_dream"
  /\ call.write = "dump_fail"
  /\ Len(dreams) = 2
  /\ dreams[2].title = strip(call.title)
  /\ store.state = "partial"

\* C5: after a create whose write succeeded, loading the backing file gives
\* the in-memory collection, record for record and field for field; a
\* missing or unparseable backing file loads as the empty sequence.
C5_RoundTrip ==
  /\ (call.op = "save_dream" /\ call.write = "ok")
       => /\ Len(load_dreams(store)) = Len(dreams)
          /\ \A i \in 1..Len(dreams) :
               LET l == load_dreams(store)[i]
                   d == dreams[i]
               IN /\ DOMAIN l = DOMAIN d
                  /\ l.id = d.id /\ l.date = d.date /\ l.title = d.title
                  /\ l.description = d.description /\ l.emotion = d.emotion
                  /\ l.lucid = d.lucid /\ l.tags = d.tags
                  /\ l.sleep_quality = d.sleep_quality
                  /\ l.sentiment = d.sentiment
  /\ store.state \in {"missing", "partial"} => load_dreams(store) = <<>>

C5_Witness ==
  /\ call.op = "save_dream"
  /\ call.write = "ok"
  /\ Len(dreams) = 2
  /\ dreams[1].lucid
  /\ ~dreams[2].lucid
  /\ Len(dreams[2].tags) = 2
  /\ load_dreams(store) = dreams

\* C6: search returns the empty sequence for every query that is empty or
\* consists only of whitespace.
C6_BlankQueryFindsNothing ==
  (call.op = "search_dreams" /\ IsBlank(call.query)) => ret = <<>>

\* C7: for a non-blank query, search returns exactly the records, in
\* collection order, in which the query occurs case-insensitively in the
\* title, the description or at least one tag.
OccursIgnoringCase(q, s) ==
  \E off \in 0..(Len(s) - Len(q)) :
    \A j \in 1..Len(q) : LowerChar(s[off + j]) = LowerChar(q[j])

IsHit(q, d) ==
  \/ OccursIgnoringCase(q, d.title)
  \/ OccursIgnoringCase(q, d.description)
  \/ \E t \in Range(d.tags) : OccursIgnoringCase(q, t)

C7_SearchIsFilter ==
  (call.op = "search_dreams" /\ ~IsBlank(call.query))
    => ret = SelectSeq(dreams, LAMBDA d : IsHit(call.query, d))

C7_Witness ==
  /\ call.op = "search_dreams"
  /\ call.query = <<"A", "B">>
  /\ Len(dreams) = 3
  /\ Len(ret) = 2
  /\ ret[1] = dreams[1]
  /\ ret[2] = dreams[3]
  /\ ~OccursIgnoringCase(call.query, dreams[3].title)

\* C8: on a non-empty collection generate_insights emits, in the order
\* lucidity, sleep quality, sentiment, at most one message per rule, each
\* exactly under its strict threshold (lucid % > 20 / < 5, average quality
\* < 5 / > 7, positive % > 60 / < 30); the "keep recording" fallback is the
\* whole result exactly when no rule fires.
NumLucid == Cardinality({i \in 1..Len(dreams) : dreams[i].lucid})
NumPositive == Cardinality({i \in 1..Len(dreams) : dreams[i].sentiment = "positive"})

RECURSIVE TotalQuality(_)
TotalQuality(S) ==
  IF S = {} THEN 0
  ELSE LET i == CHOOSE k \in S : TRUE
       IN dreams[i].sleep_quality + TotalQuality(S \ {i})

RuleMessages ==
  <<LucidHigh, LucidLow, SleepLow, SleepHigh, SentimentHigh, SentimentLow>>

RankOf(m) == CHOOSE k \in 1..Len(RuleMessages) : RuleMessages[k] = m

C8_InsightThresholds ==
  (call.op = "generate_insights" /\ dreams # <<>>) =>
    LET n == Len(dreams)
        q == TotalQuality(1..n)
        out == Range(ret)
    IN /\ (LucidHigh \in out) <=> (NumLucid * 100 > 20 * n)
       /\ (LucidLow \in out) <=> (NumLucid * 100 < 5 * n)
       /\ (SleepLow \in out) <=> (q < 5 * n)
       /\ (SleepHigh \in out) <=> (q > 7 * n)
       /\ (SentimentHigh \in out) <=> (NumPositive * 100 > 60 * n)
       /\ (SentimentLow \in out) <=> (NumPositive * 100 < 30 * n)
       /\ (KeepRecording \in out) <=> (out \cap Range(RuleMessages) = {})
       /\ (KeepRecording \in out) => ret = <<KeepRecording>>
       /\ out \subseteq Range(RuleMessages) \cup {KeepRecording}
       /\ Len(ret) <= 3
       /\ (KeepRecording \notin out) =>
            \A i, j \in 1..Len(ret) : i < j => RankOf(ret[i]) < RankOf(ret[j])

C8_Witness ==
  /\ call.op = "generate_insights"
  /\ Len(dreams) = 5
  /\ NumLucid = 1
  /\ NumPositive = 3
  /\ ret = <<KeepRecording>>

\* C9 as claimed: on the empty collection get_analysis produces zero-filled
\* statistics and generate_insights returns only the "not enough data" line.
C9_EmptyIsZeroFilled ==
  /\ (call.op = "get_analysis" /\ dreams = <<>>)
       => /\ "total_dreams" \in DOMAIN ret
          /\ ret.total_dreams = 0
          /\ ret.lucid_dreams = 0
          /\ ret.positive = 0 /\ ret.negative = 0 /\ ret.neutral = 0
          /\ ret.emotion_counts = <<>>
          /\ ret.common_tags = <<>>
  /\ (call.op = "generate_insights" /\ dreams = <<>>) => ret = <<NotEnoughData>>

\* C9 amended: on the empty collection get_analysis returns only the "no
\* dreams recorded yet" text, with no statistics at all and no division, and
\* generate_insights returns only the "not enough data" line, with no rule
\* message.
C9_EmptyIsPlaceholder ==
  /\ (call.op = "get_analysis" /\ dreams = <<>>)
       => /\ DOMAIN ret = {"text"}
          /\ ret.text = NoDreamsYet
  /\ (call.op = "generate_insights" /\ dreams = <<>>) => ret = <<NotEnoughData>>

C9_Witness ==
  /\ call.op = "get_analysis"
  /\ dreams = <<>>
  /\ ret.text = NoDreamsYet

\* C10: the top tags of get_analysis count every occurrence of a tag in all
\* records' tag lists, are ordered by count descending with ties in
\* first-seen order, and are the first 5 of that ranking: no omitted tag
\* has a higher count than a listed one.
TagSlots ==
  UNION { { <<i, j>> : j \in 1..Len(dreams[i].tags) } : i \in 1..Len(dreams) }
TagAt(p) == dreams[p[1]].tags[p[2]]
AllTagsSeen == { TagAt(p) : p \in TagSlots }
Occurrences(t) == Cardinality({ p \in TagSlots : TagAt(p) = t })
Before(p, r) == p[1] < r[1] \/ (p[1] = r[1] /\ p[2] < r[2])
FirstSeen(t) ==
  CHOOSE p \in TagSlots :
    TagAt(p) = t /\ \A r \in TagSlots : TagAt(r) = t => ~Before(r, p)
Outranks(t, u) ==
  \/ Occurrences(t) > Occurrences(u)
  \/ (Occurrences(t) = Occurrences(u) /\ Before(FirstSeen(t), FirstSeen(u)))

C10_TopTags ==
  (call.op = "get_analysis" /\ dreams # <<>>) =>
    LET top == ret.common_tags
        listed == { top[k][1] : k \in 1..Len(top) }
    IN /\ \A k \in 1..Len(top) :
            top[k][1] \in AllTagsSeen /\ top[k][2] = Occurrences(top[k][1])
       /\ \A k, l \in 1..Len(top) : k < l => Outranks(top[k][1], top[l][1])
       /\ Len(top) = (IF Cardinality(AllTagsSeen) < 5
                      THEN Cardinality(AllTagsSeen) ELSE 5)
       /\ \A u \in AllTagsSeen \ listed :
            \A t \in listed : Outranks(t, u)

C10_Witness ==
  /\ call.op = "get_analysis"
  /\ Cardinality(AllTagsSeen) = 6
  /\ Len(ret.common_tags) = 5
  /\ dreams[1].tags = <<<<"a">>, <<"a">>>>
  /\ ret.common_tags[1] = <<<<"a">>, 2>>
  /\ ret.common_tags[2][2] = 2
  /\ ret.common_tags[3][2] = 1

\* C11: the collection is append-only. An accepted create adds exactly one
\* record at the end and leaves the earlier records in place; a rejected
\* create, search, get_analysis, generate_insights and export_analysis leave
\* the collection as it was. So every stored record has a non-empty trimmed
\* title and description, only non-empty trimmed tags, and a sentiment among
\* positive, negative and neutral.
IsTrimmed(s) == s # <<>> /\ ~IsSpace(s[1]) /\ ~IsSpace(s[Len(s)])

ReadOnlyOps ==
  {"search_dreams", "get_analysis", "generate_insights", "export_analysis"}

WellFormedRecord(d) ==
  /\ IsTrimmed(d.title)
  /\ IsTrimmed(d.description)
  /\ \A k \in 1..Len(d.tags) : IsTrimmed(d.tags[k]) /\ "," \notin Range(d.tags[k])
  /\ d.sentiment \in {"positive", "negative", "neutral"}

====
